---------------------------- MODULE Spec2Model ----------------------------
(***************************************************************************)
(* The intelligence graph of the ExposureIQ dashboard: the host page       *)
(* (src/app/page.tsx) that owns the scan result and the selected node id,  *)
(* and the IntelligenceGraph component (src/unnamed/part_002) that owns    *)
(* the built graph, the node positions, the viewport (pan, zoom) and the   *)
(* pointer gesture state.                                                  *)
(*                                                                         *)
(* JavaScript numbers are modelled as exact rationals <<n, d>> (d > 0,     *)
(* lowest terms): pointer coordinates and pan are integers, zoom and world *)
(* coordinates are fractions.  cos/sin of the seeding rule are rounded to  *)
(* the nearest integer pixel.                                              *)
(***************************************************************************)
EXTENDS Integers, Sequences, FiniteSets, TLC

VARIABLES
    scanResult,     \* page.tsx: name of the ScanResult shown, or NULL
    isLoading,      \* page.tsx: a scan request is in flight
    selectedNode,   \* page.tsx: selected node id, or NULL
    zoom,           \* graph: rational
    pan,            \* graph: [x, y] integers
    isDragging,     \* graph: the panning flag
    dragStart,      \* graph: pan anchor [x, y]
    hoveredNode,    \* graph: index of the hovered record in graphData.nodes, 0 = null
    graphData,      \* graph: [nodes, edges] built once at mount
    nodePositions,  \* graph: id -> [x, y] rationals
    draggingNode,   \* graph: id of the node being dragged, or NULL
    ev,             \* history: the last event processed
    nEvents,        \* history: events processed by the mounted graph
    ghost,          \* history: pan gestures seen since the last mount or reset
    surface,        \* environment: what canvasRef.current and getContext("2d") give
    resizeListeners,\* window: number of registered "resize" listeners of the graph
    lastPointer,    \* history: position the preceding event reported if it was a
                    \*          pointer-down, a pointer-move or a click, else NoPoint
    gesture         \* history: the pan gesture in progress, see History

vars == <<scanResult, isLoading, selectedNode, zoom, pan, isDragging, dragStart,
          hoveredNode, graphData, nodePositions, draggingNode, ev, nEvents, ghost,
          surface, resizeListeners, lastPointer, gesture>>

hostVars == <<scanResult, isLoading>>
graphVars == <<zoom, pan, isDragging, dragStart, hoveredNode, graphData,
               nodePositions, draggingNode>>

-----------------------------------------------------------------------------
(* Bounds *)

\* events one mounted graph processes
MaxEvents == 5
\* largest numerator or denominator a zoom value may take
MaxZoomTerm == 250

-----------------------------------------------------------------------------
(* JavaScript values *)

NULL == "<null>"

\* truthiness of a string-or-null: null and the empty string are falsy
Truthy(s) == s # NULL /\ s # ""

\* a || null
OrNull(s) == IF Truthy(s) THEN s ELSE NULL

-----------------------------------------------------------------------------
(* Exact rational arithmetic *)

Abs(n) == IF n < 0 THEN -n ELSE n

RECURSIVE GCD(_, _)
GCD(a, b) == IF b = 0 THEN a ELSE GCD(b, a % b)

Norm(n, d) == LET g == GCD(Abs(n), d) IN <<n \div g, d \div g>>

RInt(i) == <<i, 1>>
\* a * b, cancelling across before multiplying
RMul(a, b) == LET g == GCD(Abs(a[1]), b[2])
                  h == GCD(Abs(b[1]), a[2])
              IN  Norm((a[1] \div g) * (b[1] \div h), (a[2] \div h) * (b[2] \div g))
RSub(a, b) == Norm(a[1] * b[2] - b[1] * a[2], a[2] * b[2])
RAdd(a, b) == Norm(a[1] * b[2] + b[1] * a[2], a[2] * b[2])
\* a / b for b > 0
RDiv(a, b) == RMul(a, <<b[2], b[1]>>)
RLe(a, b) == a[1] * b[2] <= b[1] * a[2]
RLt(a, b) == a[1] * b[2] < b[1] * a[2]
RMin(a, b) == IF RLe(a, b) THEN a ELSE b
RMax(a, b) == IF RLe(a, b) THEN b ELSE a

LCM(a, b) == (a \div GCD(a, b)) * b

\* n^2 as three base-10000 limbs (n >= 0), without 32-bit overflow
Sq3(n) == LET h == n \div 10000
              l == n % 10000
          IN  <<h * h, 2 * h * l, l * l>>

Carry3(t) == LET m == t[2] + (t[3] \div 10000)
             IN  <<t[1] + (m \div 10000), m % 10000, t[3] % 10000>>

Le3(s, t) == \/ s[1] < t[1]
             \/ s[1] = t[1] /\ s[2] < t[2]
             \/ s[1] = t[1] /\ s[2] = t[2] /\ s[3] <= t[3]

\* sqrt(dx^2 + dy^2) <= size, for rationals dx, dy and an integer size
DistLe(dx, dy, size) ==
    /\ Abs(dx[1]) <= size * dx[2]
    /\ Abs(dy[1]) <= size * dy[2]
    /\ LET L  == LCM(dx[2], dy[2])
           nx == Abs(dx[1]) * (L \div dx[2])
           ny == Abs(dy[1]) * (L \div dy[2])
           a  == Sq3(nx)
           b  == Sq3(ny)
       IN  Le3(Carry3(<<a[1] + b[1], a[2] + b[2], a[3] + b[3]>>),
               Carry3(Sq3(size * L)))

-----------------------------------------------------------------------------
(* Inputs: the scan results the backend may return, and the pointer *)

\* ScanResult.graph_data of each scan result; D0 carries no graph_data,
\* D1 has an edge to a node that does not exist, D2 has an empty id and a
\* duplicated id, D3 has a graph_data of no nodes and no edges
Payload(name) ==
    CASE name = "D0" -> [hasGraph |-> FALSE, nodes |-> <<>>, edges |-> <<>>]
      [] name = "D1" ->
           [hasGraph |-> TRUE,
            nodes |-> << [id |-> "a", label |-> "Alice", type |-> "person"],
                         [id |-> "b", label |-> "a@x.org", type |-> "email"],
                         [id |-> "c", label |-> "", type |-> "gadget"] >>,
            edges |-> << [from |-> "a", to |-> "b", title |-> "owns"],
                         [from |-> "a", to |-> "ghost", title |-> ""],
                         [from |-> "b", to |-> "c", title |-> "uses"] >>]
      [] name = "D2" ->
           [hasGraph |-> TRUE,
            nodes |-> << [id |-> "", label |-> "anon", type |-> "person"],
                         [id |-> "b", label |-> "first", type |-> "email"],
                         [id |-> "b", label |-> "last", type |-> "domain"] >>,
            edges |-> << [from |-> "", to |-> "b", title |-> "owns"] >>]
      [] name = "D3" -> [hasGraph |-> TRUE, nodes |-> <<>>, edges |-> <<>>]

ScanResults == {"D0", "D1", "D2", "D3"}

\* canvas.getBoundingClientRect(): the canvas origin in client coordinates
Rect == [left |-> 8, top |-> 16]

\* client positions the pointer visits: the seed of node 0, a point 20 below
\* the seed of node 2, and three points of empty space
Points == { [x |-> 558, y |-> 316], [x |-> 489, y |-> 462],
            [x |-> 108, y |-> 116], [x |-> 118, y |-> 116], [x |-> 118, y |-> 126] }

\* WheelEvent.deltaY
WheelDeltas == {-100, 0, 100}

-----------------------------------------------------------------------------
(* generateGraphData and the state initialisers *)

\* Math.cos(i * 0.5) * 150 and Math.sin(i * 0.5) * 150, rounded
Cos150(i) == CASE i = 0 -> 150 [] i = 1 -> 132 [] i = 2 -> 81 [] i = 3 -> 11 [] OTHER -> -62
Sin150(i) == CASE i = 0 -> 0 [] i = 1 -> 72 [] i = 2 -> 126 [] i = 3 -> 150 [] OTHER -> 136

\* mutant: a result without graph_data is shown as a one-node sample graph
generateGraphData_Fallback(name) ==
    LET d == Payload(name) IN
    IF ~d.hasGraph
    THEN [nodes |-> << [id |-> "user", label |-> "user", type |-> "person",
                        x |-> 400 + Cos150(0), y |-> 300 + Sin150(0)] >>,
          edges |-> <<>>]
    ELSE [nodes |-> [k \in 1..Len(d.nodes) |->
                        [id    |-> d.nodes[k].id,
                         label |-> d.nodes[k].label,
                         type  |-> d.nodes[k].type,
                         x     |-> 400 + Cos150(k - 1),
                         y     |-> 300 + Sin150(k - 1)]],
          edges |-> [k \in 1..Len(d.edges) |->
                        [source       |-> d.edges[k].from,
                         target       |-> d.edges[k].to,
                         relationship |-> IF d.edges[k].title # "" THEN d.edges[k].title
                                                                   ELSE "connected"]]]

generateGraphData(name) ==
    LET d == Payload(name) IN
    IF ~d.hasGraph THEN [nodes |-> <<>>, edges |-> <<>>]
    ELSE [nodes |-> [k \in 1..Len(d.nodes) |->
                        [id    |-> d.nodes[k].id,
                         label |-> d.nodes[k].label,
                         type  |-> d.nodes[k].type,
                         x     |-> 400 + Cos150(k - 1),
                         y     |-> 300 + Sin150(k - 1)]],
          edges |-> [k \in 1..Len(d.edges) |->
                        [source       |-> d.edges[k].from,
                         target       |-> d.edges[k].to,
                         relationship |-> IF d.edges[k].title # "" THEN d.edges[k].title
                                                                   ELSE "connected"]]]

NodeIds(g) == {g.nodes[k].id : k \in 1..Len(g.nodes)}

\* new Map(graphData.nodes.map(n => [n.id, {x, y}])): a later record of the
\* same id overwrites the earlier one
InitialPositions(g) ==
    [i \in NodeIds(g) |->
        LET last == CHOOSE k \in 1..Len(g.nodes) :
                        /\ g.nodes[k].id = i
                        /\ \A j \in 1..Len(g.nodes) : g.nodes[j].id = i => j <= k
        IN  [x |-> RInt(g.nodes[last].x), y |-> RInt(g.nodes[last].y)]]

getNodeSize(type) ==
    CASE type = "person" -> 60
      [] type = "sensitive_data" -> 40
      [] type = "repository" -> 28
      [] type = "organization" -> 28
      [] type = "email" -> 25
      [] type = "platform" -> 24
      [] type = "account" -> 22
      [] type = "identity" -> 20
      [] type = "location" -> 18
      [] type = "website" -> 18
      [] type = "domain" -> 16
      [] type = "user" -> 30
      [] type = "sensitive" -> 22
      [] OTHER -> 20

-----------------------------------------------------------------------------
(* The host page *)

\* {scanResult && !isLoading && <IntelligenceGraph .../>}
Mounted == scanResult # NULL /\ ~isLoading

\* window.addEventListener("resize", handleResize) with a new handleResize
addEventListener(n) == n + 1
\* window.removeEventListener("resize", handleResize); removing a listener
\* that is not registered does nothing
removeEventListener(n) == IF n > 0 THEN n - 1 ELSE 0

\* no pointer position
NoPoint == [x |-> -1, y |-> -1]

Origin == [x |-> 0, y |-> 0]

NoGhost == [sum |-> Origin, down |-> Origin, last |-> Origin]

\* the graph component's state when it is not mounted
Unmounted ==
    /\ zoom' = RInt(1)
    /\ pan' = Origin
    /\ isDragging' = FALSE
    /\ dragStart' = Origin
    /\ hoveredNode' = 0
    /\ graphData' = [nodes |-> <<>>, edges |-> <<>>]
    /\ nodePositions' = <<>>
    /\ draggingNode' = NULL
    /\ nEvents' = 0
    /\ ghost' = NoGhost
    /\ resizeListeners' = IF Mounted THEN removeEventListener(resizeListeners)
                                     ELSE resizeListeners
    /\ lastPointer' = NoPoint
    /\ gesture' = "none"
    /\ UNCHANGED surface

\* mutant: the initialisers do not run again for a new scan result, the
\* model and the positions of the previous render are kept
Mount_KeepsState(name) ==
    /\ zoom' = zoom
    /\ pan' = pan
    /\ isDragging' = isDragging
    /\ dragStart' = dragStart
    /\ hoveredNode' = hoveredNode
    /\ graphData' = graphData
    /\ nodePositions' = nodePositions
    /\ draggingNode' = draggingNode
    /\ nEvents' = 0
    /\ ghost' = NoGhost
    /\ resizeListeners' = addEventListener(resizeListeners)
    /\ lastPointer' = NoPoint
    /\ gesture' = "none"
    /\ UNCHANGED surface

\* the useState initialisers of IntelligenceGraph, run when it mounts
Mount(name) ==
    /\ zoom' = RInt(1)
    /\ pan' = Origin
    /\ isDragging' = FALSE
    /\ dragStart' = Origin
    /\ hoveredNode' = 0
    /\ graphData' = generateGraphData(name)
    /\ nodePositions' = InitialPositions(generateGraphData(name))
    /\ draggingNode' = NULL
    /\ nEvents' = 0
    /\ ghost' = NoGhost
    /\ resizeListeners' = addEventListener(resizeListeners)
    /\ lastPointer' = NoPoint
    /\ gesture' = "none"
    /\ UNCHANGED surface

Init ==
    /\ scanResult = NULL
    /\ isLoading = FALSE
    /\ selectedNode = NULL
    /\ zoom = RInt(1)
    /\ pan = Origin
    /\ isDragging = FALSE
    /\ dragStart = Origin
    /\ hoveredNode = 0
    /\ graphData = [nodes |-> <<>>, edges |-> <<>>]
    /\ nodePositions = <<>>
    /\ draggingNode = NULL
    /\ ev = "init"
    /\ nEvents = 0
    /\ ghost = NoGhost
    /\ surface = "ready"
    /\ resizeListeners = 0
    /\ lastPointer = NoPoint
    /\ gesture = "none"

\* mutant: handleSearch without setSelectedNode(null)
StartScan_KeepsSelection ==
    /\ ~isLoading
    /\ isLoading' = TRUE
    /\ scanResult' = NULL
    /\ Unmounted
    /\ ev' = "scan"
    /\ UNCHANGED selectedNode

\* handleSearch up to its await: the submit button is disabled while loading
StartScan ==
    /\ ~isLoading
    /\ isLoading' = TRUE
    /\ selectedNode' = NULL
    /\ scanResult' = NULL
    /\ Unmounted
    /\ ev' = "scan"

\* handleSearch: the response is ok and setScanResult(data) runs, then finally
ScanSucceeds ==
    /\ isLoading
    /\ \E name \in ScanResults :
          /\ scanResult' = name
          /\ Mount(name)
    /\ isLoading' = FALSE
    /\ ev' = "loaded"
    /\ UNCHANGED selectedNode

\* mutant: handleSearch without its finally block on the failure path
ScanFails_KeepsLoading ==
    /\ isLoading
    /\ isLoading' = TRUE
    /\ ev' = "failed"
    /\ UNCHANGED <<scanResult, selectedNode, graphVars, nEvents, ghost,
                   surface, resizeListeners, lastPointer, gesture>>

\* handleSearch: the request throws (HTTP error or network failure), then finally
ScanFails ==
    /\ isLoading
    /\ isLoading' = FALSE
    /\ ev' = "failed"
    /\ UNCHANGED <<scanResult, selectedNode, graphVars, nEvents, ghost,
                   surface, resizeListeners, lastPointer, gesture>>

-----------------------------------------------------------------------------
(* The graph component: hit-testing *)

\* ctx.translate(pan.x, pan.y); ctx.scale(zoom, zoom): the client position
\* at which draw paints the world point w
worldToScreen(w, p, z) ==
    [x |-> RAdd(RMul(w.x, z), RInt(p.x + Rect.left)),
     y |-> RAdd(RMul(w.y, z), RInt(p.y + Rect.top))]

\* mutant: (clientX - rect.left) / zoom - pan.x, the scale undone before the
\* translation
screenToWorldR_ScaleFirst(s, p, z) ==
    [x |-> RSub(RDiv(RSub(s.x, RInt(Rect.left)), z), RInt(p.x)),
     y |-> RSub(RDiv(RSub(s.y, RInt(Rect.top)), z), RInt(p.y))]

\* (clientX - rect.left - pan.x) / zoom, (clientY - rect.top - pan.y) / zoom,
\* for a client position s of rational coordinates
screenToWorldR(s, p, z) ==
    [x |-> RDiv(RSub(s.x, RInt(Rect.left + p.x)), z),
     y |-> RDiv(RSub(s.y, RInt(Rect.top + p.y)), z)]

\* the same for a pointer event, whose clientX and clientY are integers
screenToWorld(c, p, z) == screenToWorldR([x |-> RInt(c.x), y |-> RInt(c.y)], p, z)

\* the test of one node of the loop of getNodeAtPosition
Hits(w, node) ==
    /\ node.id \in DOMAIN nodePositions
    /\ LET pos == nodePositions[node.id]
       IN  DistLe(RSub(w.x, pos.x), RSub(w.y, pos.y), getNodeSize(node.type))

\* mutant: the node drawn last (on top) is returned, not the first in the list
getNodeAtPosition_Topmost(c) ==
    LET w    == screenToWorld(c, pan, zoom)
        hits == {k \in 1..Len(graphData.nodes) : Hits(w, graphData.nodes[k])}
    IN  IF surface = "noCanvas" \/ hits = {} THEN 0
        ELSE CHOOSE k \in hits : \A j \in hits : k >= j

\* index in graphData.nodes of the node returned, 0 for null
getNodeAtPosition(c) ==
    LET w    == screenToWorld(c, pan, zoom)
        hits == {k \in 1..Len(graphData.nodes) : Hits(w, graphData.nodes[k])}
    IN  IF surface = "noCanvas" \/ hits = {} THEN 0
        ELSE CHOOSE k \in hits : \A j \in hits : k <= j

\* node?.id of a hit-test result
IdOf(k) == IF k = 0 THEN NULL ELSE graphData.nodes[k].id

\* mutant: new Map().set(k, v), the previous entries are not copied
MapSet_Fresh(m, k, v) == [i \in {k} |-> v]

\* new Map(prev).set(k, v)
MapSet(m, k, v) == [i \in (DOMAIN m) \cup {k} |-> IF i = k THEN v ELSE m[i]]

-----------------------------------------------------------------------------
(* The graph component: event handlers *)

\* the graph is on screen and takes one more event
Live == Mounted /\ nEvents < MaxEvents

\* what draw closes over: useCallback(..., [graphData, nodePositions, zoom,
\* pan, hoveredNode, selectedNode])
drawDeps == <<graphData, nodePositions, zoom, pan, hoveredNode, selectedNode>>

\* mutant: the resize effect returns no cleanup
ResizeEffect_NoCleanup(n) == addEventListener(n)

\* the effect of [draw] runs again: its cleanup, then its body
ResizeEffect(n) == addEventListener(removeEventListener(n))

\* The end of every event of the mounted graph, p being the pointer position
\* the event reported (NoPoint for an event that is no pointer-down,
\* pointer-move or click).  The render that follows a state change gives draw a new
\* identity, so the resize effect runs again; setPan and setNodePositions
\* store a new object even when the values are the same.
\* gesture is "pan" from a pointer-down from idle that missed every node,
\* as long as every pointer-move since was a pan and zoom did not change,
\* until the click after the pointer-up; "panReset" is the same with a
\* view reset in between; "none" otherwise.
History(p) ==
    /\ lastPointer' = p
    /\ resizeListeners' = IF ev' \in {"moveDrag", "movePan"} \/ drawDeps' # drawDeps
                          THEN ResizeEffect(resizeListeners)
                          ELSE resizeListeners
    /\ gesture' = IF ev' = "down"
                  THEN IF draggingNode = NULL /\ ~isDragging /\ draggingNode' = NULL
                       THEN "pan" ELSE "none"
                  ELSE IF ev' \in {"moveDrag", "moveHover", "moveNone", "click", "leave"}
                  THEN "none"
                  ELSE IF zoom' # zoom THEN "none"
                  ELSE IF ev' = "reset" /\ gesture # "none" THEN "panReset"
                  ELSE gesture
    /\ UNCHANGED surface

Plus(a, b) == [x |-> a.x + b.x, y |-> a.y + b.y]
Minus(a, b) == [x |-> a.x - b.x, y |-> a.y - b.y]

\* mutant: the pan branch does not move the anchor (no setDragStart)
handleMouseMove_FixedAnchor(c) ==
    /\ Live
    /\ nEvents' = nEvents + 1
    /\ IF surface = "noCanvas"
       THEN /\ ev' = "moveNone"
            /\ UNCHANGED <<nodePositions, pan, dragStart, hoveredNode, ghost>>
       ELSE IF Truthy(draggingNode)
       THEN /\ nodePositions' = [i \in (DOMAIN nodePositions) \cup {draggingNode} |->
                                    IF i = draggingNode THEN screenToWorld(c, pan, zoom)
                                                        ELSE nodePositions[i]]
            /\ ev' = "moveDrag"
            /\ UNCHANGED <<pan, dragStart, hoveredNode, ghost>>
       ELSE IF isDragging
       THEN /\ pan' = Plus(pan, Minus(c, dragStart))
            /\ ghost' = [ghost EXCEPT !.last = c]
            /\ ev' = "movePan"
            /\ UNCHANGED <<dragStart, nodePositions, hoveredNode>>
       ELSE /\ hoveredNode' = getNodeAtPosition(c)
            /\ ev' = "moveHover"
            /\ UNCHANGED <<nodePositions, pan, dragStart, ghost>>
    /\ UNCHANGED <<hostVars, selectedNode, zoom, isDragging, graphData, draggingNode>>
    /\ History(c)

\* mutant: the hover branch keeps the last hovered node when nothing is hit
handleMouseMove_HoverSticky(c) ==
    /\ Live
    /\ nEvents' = nEvents + 1
    /\ IF surface = "noCanvas"
       THEN /\ ev' = "moveNone"
            /\ UNCHANGED <<nodePositions, pan, dragStart, hoveredNode, ghost>>
       ELSE IF Truthy(draggingNode)
       THEN /\ nodePositions' = MapSet(nodePositions, draggingNode,
                                       screenToWorld(c, pan, zoom))
            /\ ev' = "moveDrag"
            /\ UNCHANGED <<pan, dragStart, hoveredNode, ghost>>
       ELSE IF isDragging
       THEN /\ pan' = Plus(pan, Minus(c, dragStart))
            /\ dragStart' = c
            /\ ghost' = [ghost EXCEPT !.last = c]
            /\ ev' = "movePan"
            /\ UNCHANGED <<nodePositions, hoveredNode>>
       ELSE /\ hoveredNode' = IF getNodeAtPosition(c) # 0 THEN getNodeAtPosition(c)
                                                          ELSE hoveredNode
            /\ ev' = "moveHover"
            /\ UNCHANGED <<nodePositions, pan, dragStart, ghost>>
    /\ UNCHANGED <<hostVars, selectedNode, zoom, isDragging, graphData, draggingNode>>
    /\ History(c)

\* mutant: handleMouseMove without its "if (!canvas) return"
handleMouseMove_NoGuard(c) ==
    /\ Live
    /\ nEvents' = nEvents + 1
    /\ IF Truthy(draggingNode)
       THEN /\ nodePositions' = MapSet(nodePositions, draggingNode,
                                       screenToWorld(c, pan, zoom))
            /\ ev' = "moveDrag"
            /\ UNCHANGED <<pan, dragStart, hoveredNode, ghost>>
       ELSE IF isDragging
       THEN /\ pan' = Plus(pan, Minus(c, dragStart))
            /\ dragStart' = c
            /\ ghost' = [ghost EXCEPT !.last = c]
            /\ ev' = "movePan"
            /\ UNCHANGED <<nodePositions, hoveredNode>>
       ELSE /\ hoveredNode' = getNodeAtPosition(c)
            /\ ev' = "moveHover"
            /\ UNCHANGED <<nodePositions, pan, dragStart, ghost>>
    /\ UNCHANGED <<hostVars, selectedNode, zoom, isDragging, graphData, draggingNode>>
    /\ History(c)

handleMouseMove(c) ==
    /\ Live
    /\ nEvents' = nEvents + 1
    /\ IF surface = "noCanvas"
       THEN /\ ev' = "moveNone"
            /\ UNCHANGED <<nodePositions, pan, dragStart, hoveredNode, ghost>>
       ELSE IF Truthy(draggingNode)
       THEN /\ nodePositions' = MapSet(nodePositions, draggingNode,
                                       screenToWorld(c, pan, zoom))
            /\ ev' = "moveDrag"
            /\ UNCHANGED <<pan, dragStart, hoveredNode, ghost>>
       ELSE IF isDragging
       THEN /\ pan' = Plus(pan, Minus(c, dragStart))
            /\ dragStart' = c
            /\ ghost' = [ghost EXCEPT !.last = c]
            /\ ev' = "movePan"
            /\ UNCHANGED <<nodePositions, hoveredNode>>
       ELSE /\ hoveredNode' = getNodeAtPosition(c)
            /\ ev' = "moveHover"
            /\ UNCHANGED <<nodePositions, pan, dragStart, ghost>>
    /\ UNCHANGED <<hostVars, selectedNode, zoom, isDragging, graphData, draggingNode>>
    /\ History(c)

handleMouseDown(c) ==
    /\ Live
    /\ nEvents' = nEvents + 1
    /\ ev' = "down"
    /\ IF getNodeAtPosition(c) # 0
       THEN /\ draggingNode' = IdOf(getNodeAtPosition(c))
            /\ UNCHANGED <<isDragging, dragStart, ghost>>
       ELSE /\ isDragging' = TRUE
            /\ dragStart' = c
            /\ ghost' = [sum  |-> Plus(ghost.sum, Minus(ghost.last, ghost.down)),
                         down |-> c,
                         last |-> c]
            /\ UNCHANGED draggingNode
    /\ UNCHANGED <<hostVars, selectedNode, zoom, pan, hoveredNode, graphData, nodePositions>>
    /\ History(c)

\* mutant: handleMouseUp without setDraggingNode(null)
handleMouseUp_KeepsNode(kind) ==
    /\ Live
    /\ nEvents' = nEvents + 1
    /\ ev' = kind
    /\ isDragging' = FALSE
    /\ UNCHANGED <<hostVars, selectedNode, zoom, pan, dragStart, hoveredNode, graphData,
                   nodePositions, draggingNode, ghost>>
    /\ History(NoPoint)

\* mutant: the release also puts the view back where the gesture found it
handleMouseUp_SnapsBack(kind) ==
    /\ Live
    /\ nEvents' = nEvents + 1
    /\ ev' = kind
    /\ isDragging' = FALSE
    /\ draggingNode' = NULL
    /\ pan' = Origin
    /\ UNCHANGED <<hostVars, selectedNode, zoom, dragStart, hoveredNode, graphData,
                   nodePositions, ghost>>
    /\ History(NoPoint)

\* bound to both onMouseUp and onMouseLeave
handleMouseUp(kind) ==
    /\ Live
    /\ nEvents' = nEvents + 1
    /\ ev' = kind
    /\ isDragging' = FALSE
    /\ draggingNode' = NULL
    /\ UNCHANGED <<hostVars, selectedNode, zoom, pan, dragStart, hoveredNode, graphData,
                   nodePositions, ghost>>
    /\ History(NoPoint)

\* onNodeSelect is setSelectedNode of the page
handleClick(c) ==
    /\ Live
    /\ nEvents' = nEvents + 1
    /\ ev' = "click"
    /\ selectedNode' = OrNull(IdOf(getNodeAtPosition(c)))
    /\ UNCHANGED <<hostVars, graphVars, ghost>>
    /\ History(c)

Half == <<1, 2>>
Two == <<2, 1>>

\* a zoom value the model can hold
Representable(z) == z[1] <= MaxZoomTerm /\ z[2] <= MaxZoomTerm

\* mutant: Math.max(z * delta, 0.5), the upper clamp is missing
WheelZoom_NoUpperClamp(z, deltaY) ==
    LET delta == IF deltaY > 0 THEN <<9, 10>> ELSE <<11, 10>>
    IN  RMax(RMul(z, delta), Half)

WheelZoom(z, deltaY) ==
    LET delta == IF deltaY > 0 THEN <<9, 10>> ELSE <<11, 10>>
    IN  RMin(RMax(RMul(z, delta), Half), Two)

handleWheel(deltaY) ==
    /\ Live
    /\ Representable(WheelZoom(zoom, deltaY))
    /\ nEvents' = nEvents + 1
    /\ ev' = "wheel"
    /\ zoom' = WheelZoom(zoom, deltaY)
    /\ UNCHANGED <<hostVars, selectedNode, pan, isDragging, dragStart, hoveredNode,
                   graphData, nodePositions, draggingNode, ghost>>
    /\ History(NoPoint)

\* mutant: the zoom-in button steps by the wheel's 1.1
ZoomInZoom_WheelStep(z) == RMin(RMul(z, <<11, 10>>), Two)

\* setZoom((z) => Math.min(z * 1.2, 2))
ZoomInZoom(z) == RMin(RMul(z, <<6, 5>>), Two)

\* mutant: Math.max(z / 1.2, 0.5), the exact inverse of the zoom-in step
ZoomOutZoom_Inverse(z) == RMax(RMul(z, <<5, 6>>), Half)

\* setZoom((z) => Math.max(z * 0.8, 0.5))
ZoomOutZoom(z) == RMax(RMul(z, <<4, 5>>), Half)

ZoomInButton ==
    /\ Live
    /\ Representable(ZoomInZoom(zoom))
    /\ nEvents' = nEvents + 1
    /\ ev' = "zoomIn"
    /\ zoom' = ZoomInZoom(zoom)
    /\ UNCHANGED <<hostVars, selectedNode, pan, isDragging, dragStart, hoveredNode,
                   graphData, nodePositions, draggingNode, ghost>>
    /\ History(NoPoint)

ZoomOutButton ==
    /\ Live
    /\ Representable(ZoomOutZoom(zoom))
    /\ nEvents' = nEvents + 1
    /\ ev' = "zoomOut"
    /\ zoom' = ZoomOutZoom(zoom)
    /\ UNCHANGED <<hostVars, selectedNode, pan, isDragging, dragStart, hoveredNode,
                   graphData, nodePositions, draggingNode, ghost>>
    /\ History(NoPoint)

\* mutant: the reset button without setPan({ x: 0, y: 0 })
ResetButton_KeepsPan ==
    /\ Live
    /\ nEvents' = nEvents + 1
    /\ ev' = "reset"
    /\ zoom' = RInt(1)
    /\ UNCHANGED <<hostVars, selectedNode, pan, isDragging, dragStart, hoveredNode,
                   graphData, nodePositions, draggingNode, ghost>>
    /\ History(NoPoint)

\* mutant: the reset button also re-seeds the layout
ResetButton_Reseeds ==
    /\ Live
    /\ nEvents' = nEvents + 1
    /\ ev' = "reset"
    /\ zoom' = RInt(1)
    /\ pan' = Origin
    /\ nodePositions' = InitialPositions(graphData)
    /\ ghost' = [sum |-> Origin, down |-> ghost.last, last |-> ghost.last]
    /\ UNCHANGED <<hostVars, selectedNode, isDragging, dragStart, hoveredNode,
                   graphData, draggingNode>>
    /\ History(NoPoint)

ResetButton ==
    /\ Live
    /\ nEvents' = nEvents + 1
    /\ ev' = "reset"
    /\ zoom' = RInt(1)
    /\ pan' = Origin
    /\ ghost' = [sum |-> Origin, down |-> ghost.last, last |-> ghost.last]
    /\ UNCHANGED <<hostVars, selectedNode, isDragging, dragStart, hoveredNode,
                   graphData, nodePositions, draggingNode>>
    /\ History(NoPoint)

\* selectedNode ? graphData.nodes.find((n) => n.id === selectedNode) : null,
\* as an index in graphData.nodes, 0 when nothing resolves
selectedNodeData ==
    IF ~Truthy(selectedNode) THEN 0
    ELSE LET found == {k \in 1..Len(graphData.nodes) : graphData.nodes[k].id = selectedNode}
         IN  IF found = {} THEN 0 ELSE CHOOSE k \in found : \A j \in found : k <= j

\* {selectedNodeData && (<div> ... drawer ... </div>)}
PanelShown == Mounted /\ selectedNodeData # 0

\* mutant: {hoveredNode && (<div> ... tooltip ... </div>)}
TooltipShown_IgnoresSelection == Mounted /\ hoveredNode # 0

\* {hoveredNode && !selectedNodeData && (<div> ... tooltip ... </div>)}
TooltipShown == Mounted /\ hoveredNode # 0 /\ selectedNodeData = 0

\* the X button of the drawer: onNodeSelect(null)
ClearSelection ==
    /\ Live
    /\ PanelShown
    /\ nEvents' = nEvents + 1
    /\ ev' = "clear"
    /\ selectedNode' = NULL
    /\ UNCHANGED <<hostVars, graphVars, ghost>>
    /\ History(NoPoint)

\* mutant: the edge loop without its "if (!sourcePos || !targetPos) return"
DrawnEdges_NoGuard == {k \in 1..Len(graphData.edges) : TRUE}

\* the edges the edge loop of draw strokes
DrawnEdges ==
    {k \in 1..Len(graphData.edges) :
        /\ graphData.edges[k].source \in DOMAIN nodePositions
        /\ graphData.edges[k].target \in DOMAIN nodePositions}

\* mutant: a draw that forgets the hover
WindowResize_ClearsHover ==
    /\ Live
    /\ nEvents' = nEvents + 1
    /\ ev' = "resize"
    /\ hoveredNode' = 0
    /\ UNCHANGED <<hostVars, selectedNode, zoom, pan, isDragging, dragStart, graphData,
                   nodePositions, draggingNode, ghost>>
    /\ History(NoPoint)

\* handleResize: the window resize listener calls draw, which reads the
\* state and paints the canvas
WindowResize ==
    /\ Live
    /\ nEvents' = nEvents + 1
    /\ ev' = "resize"
    /\ UNCHANGED <<hostVars, selectedNode, graphVars, ghost>>
    /\ History(NoPoint)

-----------------------------------------------------------------------------
Next ==
    \/ StartScan
    \/ ScanSucceeds
    \/ ScanFails
    \/ \E c \in Points : handleMouseMove(c)
    \/ \E c \in Points : handleMouseDown(c)
    \/ \E kind \in {"up", "leave"} : handleMouseUp(kind)
    \/ \E c \in Points : handleClick(c)
    \/ \E deltaY \in WheelDeltas : handleWheel(deltaY)
    \/ ZoomInButton
    \/ ZoomOutButton
    \/ ResetButton
    \/ ClearSelection
    \/ WindowResize

\* what the environment can make of the drawing surface: the canvas element
\* with its 2D context, the element without a context, no element
Surfaces == {"ready", "noContext", "noCanvas"}

\* the environment takes the drawing surface away or gives it back
SurfaceChanges ==
    /\ Live
    /\ nEvents' = nEvents + 1
    /\ \E s \in Surfaces \ {surface} : surface' = s
    /\ ev' = "surface"
    /\ lastPointer' = NoPoint
    /\ gesture' = "none"
    /\ UNCHANGED <<hostVars, selectedNode, graphVars, ghost, resizeListeners>>

\* the scans, the pointer gestures, the redraw and the surface; clicks,
\* zooming and the buttons are left to Spec
NextSurface ==
    \/ StartScan
    \/ ScanSucceeds
    \/ ScanFails
    \/ \E c \in Points : handleMouseMove(c)
    \/ \E c \in Points : handleMouseDown(c)
    \/ \E kind \in {"up", "leave"} : handleMouseUp(kind)
    \/ WindowResize
    \/ SurfaceChanges

\* the page as it runs: the canvas of a mounted graph is always available
Spec == Init /\ [][Next]_vars

\* the same page under an environment that can withhold the drawing surface
SpecSurface == Init /\ [][NextSurface]_vars

-----------------------------------------------------------------------------
(* Properties *)

Dragged == nodePositions # InitialPositions(graphData)

MoveEvents == {"moveDrag", "movePan", "moveHover"}

\* C1: the controller is never both dragging a node and panning, whatever
\* the order of the events.  A pointer-down on empty space followed by a
\* pointer-down on a node, with no release between them, breaks it.
C1_NeverDragAndPan == ~(draggingNode # NULL /\ isDragging)

\* C2: a pointer-up or pointer-leave always leaves the controller idle
\* (draggingNode = null, isDragging = false), and the pointer-move that
\* follows it only tracks the hover: it changes no node position and no pan.
C2_ReleaseLeavesIdle ==
    /\ [][ev' \in {"up", "leave"} => (draggingNode' = NULL /\ ~isDragging')]_vars
    /\ [][(ev \in {"up", "leave"} /\ ev' \in MoveEvents)
            => (ev' = "moveHover" /\ nodePositions' = nodePositions /\ pan' = pan)]_vars

\* a node drag has been ended by the pointer leaving the canvas
C2_Witness == ev = "leave" /\ Dragged /\ draggingNode = NULL /\ ~isDragging

\* C3: 0.5 <= zoom <= 2 in every reachable state.
C3_ZoomInRange == RLe(Half, zoom) /\ RLe(zoom, Two)

\* a wheel-up at the upper clamp
C3_Witness == ev = "wheel" /\ zoom = Two

\* C4: a pointer-move processed while dragging node A keeps the key set of
\* the position map and the position of every node other than A.
C4_DragMovesOnlyDragged ==
    [][ev' = "moveDrag"
        => /\ DOMAIN nodePositions' = DOMAIN nodePositions
           /\ \A b \in DOMAIN nodePositions :
                 b # draggingNode => nodePositions'[b] = nodePositions[b]]_vars

\* a drag has moved one node of a graph of several nodes
C4_Witness ==
    /\ ev = "moveDrag"
    /\ Cardinality(DOMAIN nodePositions) >= 2
    /\ nodePositions[draggingNode] # InitialPositions(graphData)[draggingNode]

\* C5: while the graph stays mounted, only a pointer-move processed while a
\* node is dragged changes the position map; every other event, the redraw
\* included, leaves it as it is.
C5_OnlyDragChangesPositions ==
    [][(Mounted /\ Mounted' /\ nodePositions' # nodePositions)
        => (ev' = "moveDrag" /\ Truthy(draggingNode))]_vars

\* a dragged node has kept its position through a release and a redraw
C5_Witness == ev = "resize" /\ Dragged /\ draggingNode = NULL

\* C6: a click sets the selection to the id of the node the hit-test at the
\* click point returns, and to null when it returns none.  A node whose id is
\* the empty string is hit and yet the selection becomes null.
C6_ClickSelectsHit ==
    [][\A c \in Points :
          handleClick(c) => selectedNode' = IdOf(getNodeAtPosition(c))]_vars

\* C7: the selected id is null or the id of a node of the graph on screen,
\* across clicks, the clear-selection button and scans.
C7_SelectionValid ==
    selectedNode = NULL \/ (Mounted /\ selectedNode \in NodeIds(graphData))

\* a click has selected a node
C7_Witness == ev = "click" /\ selectedNode # NULL

\* the selected id resolves to a node of the graph on screen
Resolves == Mounted /\ selectedNode # NULL /\ selectedNode \in NodeIds(graphData)

\* C8: the tooltip and the selection panel are never both shown; the panel
\* is shown exactly when the selected id resolves to a node, the tooltip
\* exactly when a node is hovered and no selected id resolves.
C8_TooltipXorPanel ==
    /\ ~(TooltipShown /\ PanelShown)
    /\ PanelShown <=> Resolves
    /\ TooltipShown <=> (Mounted /\ hoveredNode # 0 /\ ~Resolves)

\* the panel is shown while a node is hovered
C8_Witness == PanelShown /\ hoveredNode # 0 /\ ~TooltipShown

\* C9: counted from the mount or the last reset-view (a reset during a
\* gesture restarts the gesture at its current anchor), pan is the sum over
\* the pan gestures of (last pointer position while panning - pointer-down
\* position), whatever the number of pointer-moves and the zoom.
C9_PanIsSumOfGestures ==
    pan = Plus(ghost.sum, Minus(ghost.last, ghost.down))

\* a gesture of delta (10, 0) then one of delta (0, 10)
C9_Witness ==
    /\ ev = "movePan"
    /\ ghost.sum = [x |-> 10, y |-> 0]
    /\ pan = [x |-> 10, y |-> 10]

EndpointsExist(e) ==
    e.source \in NodeIds(graphData) /\ e.target \in NodeIds(graphData)

LastInput(i) ==
    LET recs == Payload(scanResult).nodes
    IN  CHOOSE k \in 1..Len(recs) :
            /\ recs[k].id = i
            /\ \A j \in 1..Len(recs) : recs[j].id = i => j <= k

\* the record k of the built model carries the label and type of the last
\* input record of its id
IsLastRecord(k) ==
    LET n == graphData.nodes[k]
        r == Payload(scanResult).nodes[LastInput(n.id)]
    IN  n.label = r.label /\ n.type = r.type

\* C11: the built model holds exactly one entity per id, carrying the label
\* and type of the last input record of that id, and the hover and the
\* selection panel show that record.  The builder keeps every record.
C11_LastRecordWins ==
    Mounted =>
      /\ \A i \in NodeIds(graphData) :
            Cardinality({k \in 1..Len(graphData.nodes) : graphData.nodes[k].id = i}) = 1
      /\ \A k \in 1..Len(graphData.nodes) : IsLastRecord(k)
      /\ hoveredNode # 0 => IsLastRecord(hoveredNode)
      /\ selectedNodeData # 0 => IsLastRecord(selectedNodeData)

\* the input on screen has no node and no edge
EmptyInput ==
    /\ Mounted
    /\ Payload(scanResult).nodes = <<>>
    /\ Payload(scanResult).edges = <<>>

\* C12: an input without graph_data, or with no nodes and no edges, gives an
\* empty graph and an empty position map; every hit-test on it returns null,
\* a pointer-down starts a pan and a click sets the selection to null.
C12_EmptyGraph ==
    /\ [](EmptyInput =>
            /\ graphData = [nodes |-> <<>>, edges |-> <<>>]
            /\ DOMAIN nodePositions = {}
            /\ \A c \in Points : getNodeAtPosition(c) = 0
            /\ hoveredNode = 0
            /\ draggingNode = NULL
            /\ selectedNode = NULL)
    /\ [][\A c \in Points : (EmptyInput /\ handleMouseDown(c))
                               => (isDragging' /\ dragStart' = c)]_vars
    /\ [][(EmptyInput /\ ev' = "click") => selectedNode' = NULL]_vars

\* a pointer-down and a click on the graph of an input of zero nodes
C12_Witness == EmptyInput /\ scanResult = "D3" /\ ev = "click" /\ isDragging

\* the claim's world point of a client position
ClaimWorld(c) ==
    [x |-> RDiv(RInt(c.x - Rect.left - pan.x), zoom),
     y |-> RDiv(RInt(c.y - Rect.top - pan.y), zoom)]

\* the stored position of record k is within its type's radius of c's world point
InCircle(k, c) ==
    LET n   == graphData.nodes[k]
        pos == nodePositions[n.id]
        w   == ClaimWorld(c)
    IN  DistLe(RSub(w.x, pos.x), RSub(w.y, pos.y), getNodeSize(n.type))

\* r is the first record in list order that qualifies, or 0 when none does
IsHitResult(r, c) ==
    \/ r = 0 /\ \A k \in 1..Len(graphData.nodes) : ~InCircle(k, c)
    \/ /\ r \in 1..Len(graphData.nodes)
       /\ InCircle(r, c)
       /\ \A j \in 1..(r - 1) : ~InCircle(j, c)

\* C13: the hit-test at a client point returns the first node, in list order,
\* whose stored position is within its radius of (point - origin - pan) / zoom,
\* or null; a radius-20 node is hit at offset (5, -5) and not at (40, 40).
C13_HitTest ==
    /\ [](\A c \in Points : IsHitResult(getNodeAtPosition(c), c))
    /\ [][\A c \in Points : (handleMouseMove(c) /\ ev' = "moveHover")
                               => IsHitResult(hoveredNode', c)]_vars
    /\ [](DistLe(RInt(5), RInt(-5), 20) /\ ~DistLe(RInt(40), RInt(40), 20))

\* the pointer is over two nodes and the hover names the one listed first
C13_Witness ==
    /\ ev = "moveHover"
    /\ hoveredNode # 0
    /\ \E c \in Points : \E k \in 1..Len(graphData.nodes) :
          k > hoveredNode /\ InCircle(hoveredNode, c) /\ InCircle(k, c)

\* world points the transform is tried on, besides the node positions
WorldSamples ==
    { [x |-> RInt(100), y |-> RInt(100)],
      [x |-> RInt(-7), y |-> <<1, 3>>],
      [x |-> <<-250, 11>>, y |-> RInt(0)] }

StoredPositions == {nodePositions[i] : i \in DOMAIN nodePositions}

\* C14: screenToWorld(worldToScreen(p)) = p for the pan and zoom of every
\* reachable state, and the world point under the drawn centre of a node
\* hits a node.
C14_InverseTransform ==
    /\ \A p \in WorldSamples \cup StoredPositions :
          screenToWorldR(worldToScreen(p, pan, zoom), pan, zoom) = p
    /\ \A p \in StoredPositions :
          \E k \in 1..Len(graphData.nodes) :
             Hits(screenToWorldR(worldToScreen(p, pan, zoom), pan, zoom),
                  graphData.nodes[k])

\* a node dragged under a panned and zoomed viewport
C14_Witness == Dragged /\ pan # Origin /\ zoom # RInt(1)

\* C15: a pointer-down from idle on a node, whatever its id, starts the drag
\* of that node, so that the next pointer-move moves it; a pointer-down on
\* no node starts a pan anchored at the pointer; the pointer-down changes
\* neither pan, zoom, positions, hover nor selection.  The node of id "" is
\* not dragged by the next pointer-move.
C15_DownStartsGesture ==
    /\ [][\A c \in Points :
            (handleMouseDown(c) /\ draggingNode = NULL /\ ~isDragging)
              => /\ IF getNodeAtPosition(c) # 0
                    THEN draggingNode' = IdOf(getNodeAtPosition(c)) /\ ~isDragging'
                    ELSE isDragging' /\ dragStart' = c /\ draggingNode' = NULL
                 /\ UNCHANGED <<pan, zoom, nodePositions, hoveredNode, selectedNode>>]_vars
    /\ [][(ev = "down" /\ draggingNode # NULL /\ ev' \in MoveEvents)
            => ev' = "moveDrag"]_vars

\* z * q stays inside [0.5, 2], so the step of factor q is not clamped at z
FreeStep(z, q) == RLe(Half, RMul(z, q)) /\ RLe(RMul(z, q), Two)

WheelIn(z) == WheelZoom(z, -100)
WheelOut(z) == WheelZoom(z, 100)

Clamp(z) == RMin(RMax(z, Half), Two)

\* what the zoom buttons leave alone
ZoomFrame ==
    UNCHANGED <<pan, nodePositions, hoveredNode, selectedNode, isDragging,
                draggingNode, dragStart>>

C18_ResetView ==
    [][ev' = "reset"
         => /\ zoom' = RInt(1)
            /\ pan' = Origin
            /\ UNCHANGED <<nodePositions, hoveredNode, selectedNode, isDragging,
                           draggingNode, dragStart, graphData>>]_vars

\* the view was reset during a gesture, after a node was dragged
C18_Witness == ev = "reset" /\ Dragged /\ isDragging /\ pan = Origin /\ zoom = RInt(1)

\* (400 + cos(0.5 i) * 150, 300 + sin(0.5 i) * 150) for the list index i
Seed(i) == [x |-> RInt(400 + Cos150(i)), y |-> RInt(300 + Sin150(i))]

\* C19: right after the build, the position of the node at list index i is
\* the seed of i, whatever the ids, labels, types and edges of the input.
\* A node that shares its id with a later one starts at the later one's seed.
C19_IndexDrivenLayout ==
    (Mounted /\ ev = "loaded") =>
        \A k \in 1..Len(graphData.nodes) :
            nodePositions[graphData.nodes[k].id] = Seed(k - 1)

\* C20: when a new scan result is displayed the graph starts from zoom 1,
\* pan (0,0), no hover, no drag, no pan gesture and no selection, with model
\* and positions built from the new input; while one result stays on screen
\* the model is not rebuilt, and a re-render changes nothing of the graph.
C20_FreshOnNewInput ==
    /\ [][ev' = "loaded"
            => /\ zoom' = RInt(1)
               /\ pan' = Origin
               /\ hoveredNode' = 0
               /\ ~isDragging'
               /\ draggingNode' = NULL
               /\ selectedNode' = NULL
               /\ graphData' = generateGraphData(scanResult')
               /\ nodePositions' = InitialPositions(generateGraphData(scanResult'))]_vars
    /\ [][(Mounted /\ Mounted') => graphData' = graphData]_vars
    /\ [][ev' = "resize" => UNCHANGED <<graphVars, selectedNode>>]_vars

\* a second scan result on screen, after the first one was interacted with
C20_Witness ==
    /\ ev = "loaded"
    /\ scanResult = "D1"
    /\ Len(graphData.nodes) = 3
    /\ nodePositions = InitialPositions(graphData)

\* what a zero-length input may not change
Geometry == <<zoom, pan, nodePositions>>

\* C21: a pointer-move that reports the position of the preceding
\* pointer-down or pointer-move, and a wheel event of vertical delta zero,
\* leave zoom, pan and every node position unchanged.  A wheel of delta 0
\* zooms in, and the first move of a drag snaps the node's centre to the
\* pointer.
C21_ZeroLengthInput ==
    /\ [][\A c \in Points :
            (ev \in {"down"} \cup MoveEvents /\ lastPointer = c /\ handleMouseMove(c))
               => UNCHANGED Geometry]_vars
    /\ [][handleWheel(0) => UNCHANGED Geometry]_vars

\* C22: a redraw, here the one the resize listener asks for, leaves the
\* model, the node positions, pan, zoom, hover, selection and gesture state
\* unchanged, in every reachable state and however often it runs.
C22_RedrawPureRead ==
    [][ev' = "resize"
         => UNCHANGED <<graphData, nodePositions, pan, zoom, hoveredNode, selectedNode,
                        isDragging, draggingNode, dragStart, scanResult, isLoading>>]_vars

\* a redraw with a node hovered, a node selected and the view zoomed
C22_Witness ==
    ev = "resize" /\ hoveredNode # 0 /\ selectedNode # NULL /\ zoom # RInt(1)

\* C23: while the graph is mounted exactly one resize listener is
\* registered, whatever state changes re-ran the effect, and none is
\* registered while it is not mounted.
C23_OneResizeListener == resizeListeners = IF Mounted THEN 1 ELSE 0

\* the effect has re-run several times, the last time for a node drag
C23_Witness == ev = "moveDrag" /\ nEvents >= 3 /\ resizeListeners = 1

\* every state variable of the page and of the graph
ProgramState == <<hostVars, selectedNode, graphVars>>

AnyMove == MoveEvents \cup {"moveNone"}

\* C24 as stated: with no canvas element or no 2D context, a redraw changes
\* no state, every hit-test returns null and a pointer-move changes no state.
C24_UnavailableSurfaceInert ==
    /\ [](surface # "ready" => \A c \in Points : getNodeAtPosition(c) = 0)
    /\ [][(surface # "ready" /\ ev' \in AnyMove) => UNCHANGED ProgramState]_vars
    /\ [][(surface # "ready" /\ ev' = "resize") => UNCHANGED ProgramState]_vars

\* C24: with no canvas element, a redraw changes no state, every hit-test
\* returns null and a pointer-move changes no state; with a canvas element
\* that gives no 2D context, a redraw changes no state, while the hit-test
\* and the pointer-move work as on an available surface; once the surface
\* is available again a pointer-move is processed.
C24_GuardsByElement ==
    /\ [](surface = "noCanvas" => \A c \in Points : getNodeAtPosition(c) = 0)
    /\ [][(surface = "noCanvas" /\ ev' \in AnyMove) => UNCHANGED ProgramState]_vars
    /\ [][(surface # "ready" /\ ev' = "resize") => UNCHANGED ProgramState]_vars
    /\ [](surface # "noCanvas" => \A c \in Points : IsHitResult(getNodeAtPosition(c), c))
    /\ [][(surface # "noCanvas" /\ ev' \in AnyMove) => ev' \in MoveEvents]_vars

\* a pointer-move ignored for want of a canvas, during a pan gesture
C24_Witness == surface = "noCanvas" /\ ev = "moveNone" /\ isDragging

\* C25: a pointer-move while a node is dragged sets that node's position to
\* (pointer - canvas origin - pan) / zoom for the current pan and zoom, and
\* changes neither pan, zoom, hover nor selection.  The node of id "" stays
\* where it is.
C25_DragFollowsPointer ==
    [][\A c \in Points :
          (draggingNode # NULL /\ handleMouseMove(c))
             => /\ nodePositions'[draggingNode] = ClaimWorld(c)
                /\ UNCHANGED <<pan, zoom, hoveredNode, selectedNode>>]_vars

\* C26: every click, whatever preceded it, sets the selection to the result
\* of the hit-test at the click point: the id of the node hit, null when no
\* node is hit; so does the click after the release of a node drag.  A
\* click on the node of id "" selects null.
C26_ClickUnconditional ==
    /\ [][\A c \in Points :
            handleClick(c)
               => LET k == getNodeAtPosition(c)
                  IN  /\ k = 0 => selectedNode' = NULL
                      /\ k # 0 => selectedNode' = graphData.nodes[k].id]_vars
    /\ [][\A c \in Points :
            (ev = "up" /\ Dragged /\ handleClick(c))
               => selectedNode' = IdOf(getNodeAtPosition(c))]_vars

\* C27: a pointer-move while no node is dragged and no pan is in progress
\* sets the hover to the hit-test result at the pointer and changes nothing
\* else.
C27_IdleMoveSetsHover ==
    [][\A c \in Points :
          (draggingNode = NULL /\ ~isDragging /\ handleMouseMove(c))
             => /\ IsHitResult(hoveredNode', c)
                /\ UNCHANGED <<pan, zoom, nodePositions, selectedNode, isDragging,
                               draggingNode, dragStart, graphData>>]_vars

\* after a drag is over, the idle pointer moves onto a node
C27_Witness ==
    /\ ev = "moveHover"
    /\ draggingNode = NULL /\ ~isDragging
    /\ hoveredNode # 0
    /\ Dragged

\* C28: while the graph stays mounted the hover changes only on a
\* pointer-move processed while idle.  The pointer-move after a pointer-down
\* on the node of id "" changes it.
C28_HoverChangesOnlyOnIdleMove ==
    [][(Mounted /\ Mounted' /\ hoveredNode' # hoveredNode)
          => (ev' = "moveHover" /\ draggingNode = NULL /\ ~isDragging)]_vars

\* C29 as stated: a pointer-down that misses every node, pointer-moves all
\* processed as pans with no zoom change in between, a pointer-up and a
\* click at the last pointer position end with selectedNode = null.
C29_PanClearsSelection ==
    [][(gesture \in {"pan", "panReset"} /\ ev = "up" /\ handleClick(dragStart))
          => selectedNode' = NULL]_vars

\* C29: the same, with no zoom change and no view reset in between.
C29_PanWithoutResetClearsSelection ==
    [][(gesture = "pan" /\ ev = "up" /\ handleClick(dragStart))
          => selectedNode' = NULL]_vars

\* the click that ends a pan gesture which moved the view
C29_Witness ==
    /\ ev = "click"
    /\ lastPointer = dragStart
    /\ ghost.last = dragStart
    /\ ghost.last # ghost.down
    /\ pan # Origin
    /\ ~isDragging
    /\ selectedNode = NULL

\* C30: starting a scan sets isLoading, clears scanResult and selectedNode;
\* while a scan is in flight there is no result and no graph on screen; the
\* request settles to isLoading = false, by success or by failure, and only
\* a success gives a non-null scanResult.
C30_ScanLifecycle ==
    /\ [][ev' = "scan" => (isLoading' /\ scanResult' = NULL /\ selectedNode' = NULL)]_vars
    /\ [](isLoading => (scanResult = NULL /\ ~Mounted /\ graphData.nodes = <<>>))
    /\ [][ev' \in {"loaded", "failed"} => (isLoading /\ ~isLoading')]_vars
    /\ [][ev' = "failed" => scanResult' = NULL]_vars
    /\ [][(scanResult = NULL /\ scanResult' # NULL) => ev' = "loaded"]_vars

\* a scan that failed
C30_Witness == ev = "failed" /\ ~isLoading /\ scanResult = NULL

=============================================================================
